---- MODULE Spec2Model ----
(***************************************************************************)
(* Model of the streaming synthesis client (app/ssml_client.py) and of the *)
(* retry / fallback orchestration of the TTS worker (app/tts_worker.py).   *)
(*                                                                         *)
(* Two specifications share the variables:                                 *)
(*   Spec         the worker coroutine _process_batch and everything it    *)
(*                calls, down to the frame loop of SSMLCommunicate;        *)
(*   SpecSession  one SSMLCommunicate instance driven repeatedly by an     *)
(*                arbitrary caller (save() called several times).          *)
(***************************************************************************)
EXTENDS Integers, Sequences, FiniteSets, TLC

(* ----------------------------- bounds ---------------------------------- *)
\* number of (text, output_path) tasks of one batch
MaxTasks == 1
\* largest number of chunks _chunk_text yields for one text
MaxChunks == 2
\* messages the server sends to the worker on one connection before the one
\* that ends the frame loop
MaxFrames == 1
\* the same, for the connection of SpecSession
MaxStreamFrames == 2
\* times the caller of SpecSession drives the same instance
MaxCalls == 3
\* process_request / process_srt_request calls of one behaviour of SpecJobs
MaxJobs == 2
\* awaits at which one coroutine of SpecJobs is suspended and resumed
MaxAwaits == 2
\* longest text given to _chunk_text in SpecChunk
MaxLen == 5
\* largest max_chars given to _chunk_text in SpecChunk
MaxChars == 3
\* tasks of one batch of SpecBatch
MaxBatchTasks == 2
\* longest text given to _chunk_text in SpecChunkFair
MaxFairLen == 3
\* longest SSML document, in tokens, given to the encoder in SpecCodec
MaxBody == 2
\* longest text, in characters, given to _attempt_generate_audio in SpecSsml
MaxText == 3

(* ------------------------ program constants ---------------------------- *)
\* tts_worker.py:369  max_retries = 3
max_retries == 3
\* the three request constructions of _attempt_generate_audio, in code order
SilenceTagged == 1
BreakTagged == 2
PlainOrRawText == 3

VARIABLES
    wpc,        \* position of the worker coroutine (_process_batch and callees)
    tasks,      \* the batch: sequence of [given]
    ti,         \* index of the task being processed (enumerate(tasks))
    dest,       \* final_destination of the current task
    nchunks,    \* len(chunks) of the current text
    ci,         \* index of the chunk being synthesized (1-based)
    temp_files, \* the list temp_files of _generate_single_file
    target,     \* destination argument of the running _generate_audio
    attempt,    \* loop variable of _generate_audio
    tier,       \* which block of _attempt_generate_audio is running
    last_error, \* last_error of _generate_audio
    raised,     \* exception leaving _generate_audio / _generate_single_file
    sess,       \* the SSMLCommunicate instance in use
    fs,         \* file system: path -> sequence of audio payloads written
    signals,    \* Qt signals emitted so far, in order (batch_progress,
                \* file_finished, finished, error; the progress texts are
                \* not recorded)
    trace,      \* sessions and sleeps of the running _generate_audio call
    hpc,        \* position of the caller of SpecSession
    callLog,    \* SpecSession: result of every completed save() call
    ready_event,\* SpecJobs: _ready_event is set and self.loop is there
    loopTasks,  \* SpecJobs: the coroutines handed to the worker loop, in
                \* the order of run_coroutine_threadsafe
    stored,     \* SpecJobs: the per-job parameters kept on the worker
                \* (self.voice_id, self.rate, self.proxy, self.pause_ms,
                \* self.output_format, ...)
    text,       \* SpecChunk: the local text of _chunk_text
    max_chars,  \* SpecChunk: the parameter max_chars
    chunks,     \* SpecChunk: the list chunks; after the return, the result
    input,      \* SpecChunk: the text _chunk_text was called with
    cpc,        \* SpecChunk: position in _chunk_text
    loop,       \* SpecJobs: self.loop and what became of it
    msg,        \* SpecCodec: the message handed to the encoder
    wire,       \* SpecCodec: the encoded message, as sent
    decoded,    \* SpecCodec: what get_headers_and_data returned for wire
    kpc,        \* SpecCodec: position (encode, decode, done)
    req,        \* SpecSsml: text, rate, pause_ms, voice_id, use_stress of a
                \* _attempt_generate_audio call
    built,      \* SpecSsml: the requests built so far, one per tier
    bpc         \* SpecSsml: the block of _attempt_generate_audio reached

jobVars == <<ready_event, loopTasks, stored, loop>>

chunkVars == <<text, max_chars, chunks, input, cpc>>

codecVars == <<msg, wire, decoded, kpc>>

ssmlVars == <<req, built, bpc>>

vars == <<wpc, tasks, ti, dest, nchunks, ci, temp_files, target, attempt, tier,
          last_error, raised, sess, fs, signals, trace, hpc, callLog,
          jobVars, chunkVars, codecVars, ssmlVars>>

workerVars == <<wpc, tasks, ti, dest, nchunks, ci, temp_files, target, attempt,
                tier, last_error, raised, signals, trace>>

(* ------------------------------ helpers -------------------------------- *)
None == "None"

\* paths are <<kind, number>>; NoPath stands for "no file"
NoPath == <<"none", 0>>

Last(s) == s[Len(s)]

\* no exception is propagating
NoExc == [kind |-> None, userFacing |-> FALSE, cause |-> None]

\* distinct audio payloads a server may send to the caller of SpecSession
Payloads == {1, 2}
\* the audio the service synthesizes for the text of one request of the
\* worker: the chunk with index k of a text gives the payload k, a text of
\* one chunk (no chunk index) the payload 1
ChunkAudio(k) == IF k = 0 THEN 1 ELSE k
\* the audio payload the server sends to the worker (the worker never looks
\* at the bytes)
WorkerPayloads == {ChunkAudio(ci)}

\* the worker thread's loop and _chunk_text are not part of the behaviour
JobsOff ==
    /\ ready_event = FALSE /\ loopTasks = << >> /\ stored = None
    /\ loop = None
ChunkerOff ==
    /\ text = << >> /\ max_chars = 0 /\ chunks = << >> /\ input = << >>
    /\ cpc = "off"

\* the codec and the request builder are not part of the behaviour
CodecOff == msg = << >> /\ wire = << >> /\ decoded = << >> /\ kpc = "off"
SsmlOff == req = << >> /\ built = << >> /\ bpc = 0

(* ===================== app/ssml_client.py ============================== *)

\* messages the server may send after the two requests were sent
TextPaths == {"turn.end", "turn.start", "response", "audio.metadata", "other"}
BinaryPaths == {"audio", "other"}

TextFrame(path, hdr) ==
    [type |-> "TEXT", size |-> "ok", hlen |-> "ok", hdr |-> hdr,
     path |-> path, ctype |-> TRUE, data |-> 0]

BinaryFrame(size, hlen, hdr, path, ctype, data) ==
    [type |-> "BINARY", size |-> size, hlen |-> hlen, hdr |-> hdr,
     path |-> path, ctype |-> ctype, data |-> data]

ErrorFrame ==
    [type |-> "ERROR", size |-> "ok", hlen |-> "ok", hdr |-> "ok",
     path |-> "other", ctype |-> FALSE, data |-> 0]

\* size "short": fewer than 2 bytes; hlen "over": declared header length
\* larger than the message; hdr "malformed": a header line without a colon;
\* data 0: no payload bytes after the header block.  For a message that is
\* short or over, hdr, path, ctype and data say what its bytes would parse
\* to if the length tests were not made.
ServerFrames(payloads) ==
    {TextFrame(p, h) : p \in TextPaths, h \in {"ok"}}
    \cup {TextFrame("other", "malformed")}
    \cup {BinaryFrame("short", "ok", "ok", "other", FALSE, 0),
          BinaryFrame("short", "ok", "malformed", "other", FALSE, 0),
          BinaryFrame("ok", "over", "ok", "other", FALSE, 0),
          BinaryFrame("ok", "over", "malformed", "other", FALSE, 0),
          BinaryFrame("ok", "ok", "malformed", "other", FALSE, 0)}
    \cup {BinaryFrame("ok", "over", "ok", "audio", TRUE, d) : d \in payloads}
    \cup {BinaryFrame("ok", "ok", "ok", p, c, d) :
            p \in BinaryPaths, c \in BOOLEAN, d \in {0} \cup payloads}
    \cup {ErrorFrame}

\* what the body of `async for received in websocket` does with one message
Continue == [act |-> "continue", data |-> 0, err |-> None]
\* the `continue` of the two length tests of a binary message
Drop == [act |-> "drop", data |-> 0, err |-> None]
Break == [act |-> "break", data |-> 0, err |-> None]
\* (faulty variant: the payload of an audio message is not yielded)
YieldMut(d) == [act |-> "continue", data |-> 0, err |-> None]
Yield(d) == [act |-> "yield", data |-> d, err |-> None]
\* (faulty variant: the loop ends as it does for turn.end)
RaiseMut(e) == [act |-> "break", data |-> 0, err |-> None]
Raise(e) == [act |-> "raise", data |-> 0, err |-> e]

\* (faulty variant: the two length tests of a binary message are missing)
HandleFrameMut(f) ==
    IF f.type = "TEXT" THEN
        IF f.hdr = "malformed" THEN Raise("ValueError")
        ELSE IF f.path = "turn.end" THEN Break
        ELSE Continue
    ELSE IF f.type = "BINARY" THEN
        IF f.hdr = "malformed" THEN Raise("ValueError")
        ELSE IF f.path # "audio" THEN Continue
        ELSE IF ~f.ctype /\ f.data = 0 THEN Continue
        ELSE IF f.data # 0 THEN Yield(f.data)
        ELSE Continue
    ELSE IF f.type = "ERROR" THEN Raise("WebSocketError")
    ELSE Continue
HandleFrame(f) ==
    IF f.type = "TEXT" THEN
        IF f.hdr = "malformed" THEN Raise("ValueError")
        ELSE IF f.path = "turn.end" THEN Break
        ELSE Continue
    ELSE IF f.type = "BINARY" THEN
        IF f.size = "short" THEN Drop
        ELSE IF f.hlen = "over" THEN Drop
        ELSE IF f.hdr = "malformed" THEN Raise("ValueError")
        ELSE IF f.path # "audio" THEN Continue
        ELSE IF ~f.ctype /\ f.data = 0 THEN Continue
        ELSE IF f.data # 0 THEN Yield(f.data)
        ELSE Continue
    ELSE IF f.type = "ERROR" THEN Raise("WebSocketError")
    ELSE Continue

\* the check after the frame loop of __stream
\* (faulty variant: the flag is not looked at)
LoopEndResultMut(audio_was_received) == "ok"
LoopEndResult(audio_was_received) ==
    IF ~audio_was_received THEN "NoAudioReceived" ELSE "ok"

\* SSMLCommunicate.__init__
NewSession ==
    [pc |-> "new", stream_was_called |-> FALSE, pass |-> 1,
     audio_was_received |-> FALSE, nframes |-> 0, dropped |-> 0,
     refreshes |-> 0, connLog |-> << >>, ended |-> None, fname |-> NoPath,
     out |-> << >>, result |-> None]

\* entry of stream(): the single-use check, then the first __stream() call
\* runs up to its ws_connect
\* (faulty variant: the flag is set but not tested)
StreamEntryMut(s) ==
    [s EXCEPT !.stream_was_called = TRUE, !.pc = "connect", !.pass = 1,
              !.result = None]
StreamEntry(s) ==
    IF s.stream_was_called
    THEN [s EXCEPT !.pc = "done", !.result = "RuntimeError"]
    ELSE [s EXCEPT !.stream_was_called = TRUE, !.pc = "connect", !.pass = 1,
                   !.result = None]

\* save(audio_fname): open(audio_fname, "wb") creates or truncates the file,
\* then stream() is driven
SaveSession(s, fname) ==
    StreamEntry([s EXCEPT !.fname = fname, !.out = << >>, !.ended = None])
\* (faulty variant: the file is opened for appending)
SaveFsMut(f, fname) == IF fname \in DOMAIN f THEN f ELSE (fname :> << >>) @@ f
SaveFs(f, fname) == (fname :> << >>) @@ f

\* outcomes of session.ws_connect and of the two send_str calls after it
ConnectOutcomes ==
    {"ok", "http403", "http500", "ClientConnectorError", "TimeoutError"}

\* the except clause of stream(): only a 403 of the first __stream() leads to
\* DRM.handle_client_response_error and a second __stream()
\* (faulty variant: the second __stream() is retried like the first)
AfterConnectErrorMut(s, outcome) ==
    IF outcome = "http403"
    THEN [s EXCEPT !.refreshes = @ + 1, !.pass = 2, !.pc = "connect"]
    ELSE [s EXCEPT !.pc = "done",
                   !.result = IF outcome = "http500" THEN "ClientResponseError500"
                              ELSE outcome]
AfterConnectError(s, outcome) ==
    IF outcome = "http403" /\ s.pass = 1
    THEN [s EXCEPT !.refreshes = @ + 1, !.pass = 2, !.pc = "connect"]
    ELSE [s EXCEPT !.pc = "done",
                   !.result = IF outcome = "http403" THEN "ClientResponseError403"
                              ELSE IF outcome = "http500" THEN "ClientResponseError500"
                              ELSE outcome]

Connect(outcome) ==
    /\ sess.pc = "connect"
    /\ LET s1 == [sess EXCEPT !.connLog = Append(@, outcome)] IN
       sess' = IF outcome = "ok"
               THEN [s1 EXCEPT !.pc = "recv", !.audio_was_received = FALSE,
                               !.nframes = 0, !.dropped = 0, !.ended = None]
               ELSE AfterConnectError(s1, outcome)
    /\ UNCHANGED <<fs, workerVars, hpc, callLog, jobVars, chunkVars, codecVars, ssmlVars>>

\* bytes of a yielded message are written by save()
WriteAudio(f, fname, d) ==
    IF fname = NoPath THEN f ELSE [f EXCEPT ![fname] = Append(@, d)]

\* the server sends at most FrameBound messages before the one that ends
\* the loop
FrameBound == IF hpc = "off" THEN MaxFrames ELSE MaxStreamFrames

Receive(frame) ==
    /\ sess.pc = "recv"
    /\ LET h == HandleFrame(frame) IN
       /\ h.act \in {"continue", "drop", "yield"} => sess.nframes < FrameBound
       /\ CASE h.act = "yield" ->
                 /\ sess' = [sess EXCEPT !.audio_was_received = TRUE,
                                         !.nframes = @ + 1,
                                         !.out = Append(@, h.data)]
                 /\ fs' = WriteAudio(fs, sess.fname, h.data)
            [] h.act = "continue" ->
                 /\ sess' = [sess EXCEPT !.nframes = @ + 1]
                 /\ fs' = fs
            [] h.act = "drop" ->
                 /\ sess' = [sess EXCEPT !.nframes = @ + 1, !.dropped = @ + 1]
                 /\ fs' = fs
            [] h.act = "break" ->
                 /\ sess' = [sess EXCEPT !.pc = "done", !.ended = "turn.end",
                               !.result = LoopEndResult(sess.audio_was_received)]
                 /\ fs' = fs
            [] h.act = "raise" ->
                 /\ sess' = [sess EXCEPT !.pc = "done", !.result = h.err]
                 /\ fs' = fs
    /\ UNCHANGED <<workerVars, hpc, callLog, jobVars, chunkVars, codecVars, ssmlVars>>

\* the websocket is closed by the peer: the async for ends
ConnectionClosed ==
    /\ sess.pc = "recv"
    /\ sess' = [sess EXCEPT !.pc = "done", !.ended = "closed",
                            !.result = LoopEndResult(sess.audio_was_received)]
    /\ UNCHANGED <<fs, workerVars, hpc, callLog, jobVars, chunkVars, codecVars, ssmlVars>>

\* sock_read timeout of the aiohttp session while waiting for a message
ReceiveTimeout ==
    /\ sess.pc = "recv"
    /\ sess' = [sess EXCEPT !.pc = "done", !.result = "TimeoutError"]
    /\ UNCHANGED <<fs, workerVars, hpc, callLog, jobVars, chunkVars, codecVars, ssmlVars>>

(* --------- a caller that keeps using one SSMLCommunicate instance ------- *)
HarnessFile == <<"out", 0>>

InitSession ==
    /\ wpc = "off" /\ tasks = << >> /\ ti = 0 /\ dest = NoPath /\ nchunks = 0
    /\ ci = 0 /\ temp_files = << >> /\ target = NoPath /\ attempt = 0
    /\ tier = 0 /\ last_error = None /\ raised = NoExc
    /\ signals = << >> /\ trace = << >>
    /\ sess = NewSession
    /\ fs = << >>
    /\ hpc = "ready"
    /\ callLog = << >>
    /\ JobsOff /\ ChunkerOff /\ CodecOff /\ SsmlOff

\* await communicator.save(fname) on the instance, whatever happened before
HarnessSave ==
    /\ hpc = "ready"
    /\ Len(callLog) < MaxCalls
    /\ sess' = SaveSession(sess, HarnessFile)
    /\ fs' = SaveFs(fs, HarnessFile)
    /\ hpc' = "waiting"
    /\ UNCHANGED <<workerVars, callLog, jobVars, chunkVars, codecVars, ssmlVars>>

\* `async for message in communicator.stream()` on the instance: no file
HarnessStream ==
    /\ hpc = "ready"
    /\ Len(callLog) < MaxCalls
    /\ sess' = SaveSession(sess, NoPath)
    /\ hpc' = "waiting"
    /\ UNCHANGED <<fs, workerVars, callLog, jobVars, chunkVars, codecVars, ssmlVars>>

\* the save() or stream() call returned or raised
HarnessReturn ==
    /\ hpc = "waiting"
    /\ sess.pc = "done"
    /\ callLog' = Append(callLog, [result |-> sess.result,
                                   conns |-> Len(sess.connLog),
                                   refreshes |-> sess.refreshes])
    /\ hpc' = "ready"
    /\ UNCHANGED <<sess, fs, workerVars, jobVars, chunkVars, codecVars, ssmlVars>>

NextSession ==
    \/ HarnessSave
    \/ HarnessStream
    \/ HarnessReturn
    \/ \E o \in ConnectOutcomes : Connect(o)
    \/ \E f \in ServerFrames(Payloads) : Receive(f)
    \/ ConnectionClosed
    \/ ReceiveTimeout

SpecSession == InitSession /\ [][NextSession]_vars


(* ====================== app/tts_worker.py ============================== *)

Sig(name, arg) == [sig |-> name, arg |-> arg]

Ev(ev, a, t, secs) == [ev |-> ev, attempt |-> a, tier |-> t, secs |-> secs]

\* a task is (text, output_path): given tells whether output_path is a path
\* or None.  What the text becomes is decided by the external pre-processor
\* when _generate_single_file runs: see ChunkCounts.
Tasks == [given : BOOLEAN]

\* len(chunks) for a text after prepare_text_for_tts; 0 stands for a text
\* that is empty or whitespace-only after pre-processing
ChunkCounts == 0..MaxChunks

\* the task lists MainWindow builds: on_preview one task without path,
\* on_save one task with a path, the batch start a path for every file
TaskSeqs ==
    {b \in UNION {[1..n -> Tasks] : n \in 1..MaxTasks} :
        Len(b) > 1 => \A i \in DOMAIN b : b[i].given}

OutPath(i) == <<"out", i>>
TempPath(k) == <<"tmp", k>>

\* output_path.with_suffix('.txt')
ListFile(p) == <<IF p[1] = "out" THEN "out.txt" ELSE "tmp.txt", p[2]>>

\* tempfile.mkstemp returns a name that no existing file has (here: the
\* first such name) and creates the empty file
Mkstemp(f) ==
    TempPath(CHOOSE k \in 1..(Cardinality(DOMAIN f) + 1) :
                /\ TempPath(k) \notin DOMAIN f
                /\ \A j \in 1..(k-1) : TempPath(j) \in DOMAIN f)
MkstempFs(f) == (Mkstemp(f) :> << >>) @@ f

\* f.unlink() for every f of files that exists
Unlink(f, files) ==
    [p \in DOMAIN f \ {files[i] : i \in DOMAIN files} |-> f[p]]

RECURSIVE ConcatFiles(_, _)
\* what ffmpeg -f concat -c copy writes: the inputs in manifest order
ConcatFiles(f, files) ==
    IF files = << >> THEN << >>
    ELSE f[Head(files)] \o ConcatFiles(f, Tail(files))

Init ==
    /\ wpc = "idle" /\ tasks = << >> /\ ti = 0 /\ dest = NoPath /\ nchunks = 0
    /\ ci = 0 /\ temp_files = << >> /\ target = NoPath /\ attempt = 0
    /\ tier = 0 /\ last_error = None /\ raised = NoExc
    /\ signals = << >> /\ trace = << >>
    /\ sess = NewSession
    /\ fs = << >>
    /\ hpc = "off"
    /\ callLog = << >>
    /\ JobsOff /\ ChunkerOff /\ CodecOff /\ SsmlOff

\* process_request on a ready worker: _process_batch is scheduled on the loop
ProcessRequest(batch) ==
    /\ wpc = "idle"
    /\ tasks' = batch
    /\ ti' = 0
    /\ wpc' = "batch_loop"
    /\ UNCHANGED <<dest, nchunks, ci, temp_files, target, attempt, tier,
                   last_error, raised, sess, fs, signals, trace,
                   hpc, callLog, jobVars, chunkVars, codecVars, ssmlVars>>

\* _process_batch: head of `for i, (text, output_path) in enumerate(tasks)`
BatchNext ==
    /\ wpc = "batch_loop"
    /\ ti < Len(tasks)
    /\ ti' = ti + 1
    /\ LET t == tasks[ti + 1]
           d == IF t.given THEN OutPath(ti + 1) ELSE Mkstemp(fs)
       IN /\ dest' = d
          /\ fs' = IF t.given THEN fs ELSE MkstempFs(fs)
          /\ signals' = Append(signals, Sig("batch_progress", d))
    /\ trace' = << >>
    /\ wpc' = "gsf"
    /\ UNCHANGED <<tasks, nchunks, ci, temp_files, target, attempt, tier,
                   last_error, raised, sess, hpc, callLog, jobVars, chunkVars, codecVars, ssmlVars>>

\* _process_batch: the loop is over, finished is emitted with the last path
BatchFinish ==
    /\ wpc = "batch_loop"
    /\ ti = Len(tasks)
    /\ signals' = Append(signals, Sig("finished", dest))
    /\ wpc' = "done"
    /\ UNCHANGED <<tasks, ti, dest, nchunks, ci, temp_files, target, attempt,
                   tier, last_error, raised, sess, fs, trace,
                   hpc, callLog, jobVars, chunkVars, codecVars, ssmlVars>>

\* the rest of _process_batch after _generate_single_file returned (whose
\* locals are gone)
FileDone ==
    /\ signals' = Append(signals, Sig("file_finished", dest))
    /\ nchunks' = 0 /\ ci' = 0 /\ temp_files' = << >>
    /\ wpc' = "batch_loop"

\* entry of _generate_audio(destination, ...)
EnterGenerateAudio(destination) ==
    /\ target' = destination
    /\ attempt' = 1
    /\ tier' = SilenceTagged
    /\ last_error' = None
    /\ trace' = << >>
    /\ wpc' = "tier_start"

\* if len(chunks) == 1
\* (faulty variant: a single chunk goes through the chunk loop as well)
IsSingleChunkMut(n) == FALSE
IsSingleChunk(n) == n = 1

\* _generate_single_file up to its first _generate_audio call; n is the
\* number of chunks of the pre-processed text
GenerateSingleFile(n) ==
    /\ wpc = "gsf"
    /\ IF n = 0
       THEN \* "Text is empty after processing. Skipping generation."
            /\ FileDone
            /\ UNCHANGED <<target, attempt, tier, last_error, trace>>
       ELSE IF IsSingleChunk(n)
       THEN /\ nchunks' = n
            /\ EnterGenerateAudio(dest)
            /\ UNCHANGED <<ci, temp_files, signals>>
       ELSE /\ nchunks' = n
            /\ temp_files' = << >>
            /\ ci' = 1
            /\ wpc' = "chunk_loop"
            /\ UNCHANGED <<signals, target, attempt, tier, last_error, trace>>
    /\ UNCHANGED <<tasks, ti, dest, raised, sess, fs, hpc, callLog, jobVars, chunkVars, codecVars, ssmlVars>>

\* head of `for i, chunk in enumerate(chunks)`: a temp file per chunk
ChunkNext ==
    /\ wpc = "chunk_loop"
    /\ ci <= nchunks
    /\ fs' = MkstempFs(fs)
    /\ EnterGenerateAudio(Mkstemp(fs))
    /\ UNCHANGED <<tasks, ti, dest, nchunks, ci, temp_files, raised, sess,
                   signals, hpc, callLog, jobVars, chunkVars, codecVars, ssmlVars>>

\* the except clause of _process_batch
\* (faulty variant: the except clause sits inside the for loop, which goes on)
BatchFailedMut(exc) ==
    /\ raised' = exc
    /\ signals' = Append(signals, Sig("error", dest))
    /\ wpc' = "batch_loop"
BatchFailed(exc) ==
    /\ raised' = exc
    /\ signals' = Append(signals, Sig("error", dest))
    /\ wpc' = "done"

\* temp_files.append(temp_file)
\* (faulty variant: the new file is put in front of the list)
AppendTempFileMut(files, f) == <<f>> \o files
AppendTempFile(files, f) == Append(files, f)

\* _generate_audio returned to _generate_single_file
\* (the locals of the finished call are gone)
GaReturned ==
    /\ target' = NoPath /\ attempt' = 0 /\ tier' = 0 /\ last_error' = None
    /\ IF nchunks = 1
       THEN /\ FileDone
            /\ UNCHANGED <<fs, raised>>
       ELSE /\ temp_files' = AppendTempFile(temp_files, target)
            /\ ci' = ci + 1
            /\ wpc' = "chunk_loop"
            /\ UNCHANGED <<signals, fs, raised, nchunks>>

\* _generate_audio raised exc: it passes through the except / finally of
\* _generate_single_file (multi-chunk case) into _process_batch
GaRaised(exc) ==
    /\ fs' = IF nchunks = 1 THEN fs ELSE Unlink(fs, temp_files)
    /\ BatchFailed(exc)
    /\ UNCHANGED <<temp_files, ci, target, nchunks>>


(* ------------- _generate_audio / _attempt_generate_audio --------------- *)

\* the blocks "1)", "2)", "3)" of _attempt_generate_audio follow each other
\* (faulty variant: a sweep that starts at block 2)
FirstTierMut == BreakTagged
FirstTier == SilenceTagged
\* (faulty variant: block 1 falls through to block 3)
NextTierMut(t) == IF t = SilenceTagged THEN PlainOrRawText ELSE t + 1
NextTier(t) == t + 1

\* `await communicator.save(...)` came back without raising, so the
\* `return destination.stat().st_size` after it runs
\* (faulty variant: the return is missing)
SessionSucceededMut(result) == FALSE
SessionSucceeded(result) == result = "ok"

\* blocks 1) and 2) sit in try / except Exception, block 3) does not
\* (faulty variant: block 2 without its try / except)
TierCatchesMut(t) == t = SilenceTagged
TierCatches(t) == t \in {SilenceTagged, BreakTagged}

\* await asyncio.sleep(1 * attempt)
\* (faulty variant: a constant delay)
BackoffSecondsMut(a) == 1
BackoffSeconds(a) == 1 * a

\* if attempt < max_retries: sleep
ShouldSleep(a) == a < max_retries

\* for attempt in range(1, max_retries + 1)
HasNextAttempt(a) == a + 1 < max_retries + 1

\* what _generate_audio raises after the loop
\* (faulty variant: every last error is wrapped)
FinalErrorMut(e) == [kind |-> "RuntimeError", userFacing |-> TRUE, cause |-> e]
FinalError(e) ==
    IF e = "NoAudioReceived"
    THEN [kind |-> "RuntimeError", userFacing |-> TRUE, cause |-> e]
    ELSE [kind |-> e, userFacing |-> FALSE, cause |-> None]

\* how a finished session is entered in trace
Outcome(result) == IF result = "ok" THEN "ok" ELSE "fail"

\* a block of _attempt_generate_audio builds its request and starts save():
\* blocks 1) and 2) with a new SSMLCommunicate, block 3) with
\* edge_tts.Communicate; both open the destination with "wb"
TierStart ==
    /\ wpc = "tier_start"
    /\ trace' = Append(trace, Ev("start", attempt, tier, 0))
    /\ fs' = SaveFs(fs, target)
    /\ IF tier # PlainOrRawText
       THEN /\ sess' = SaveSession(NewSession, target)
            /\ wpc' = "tier_wait"
       ELSE /\ sess' = sess
            /\ wpc' = "tier3_wait"
    /\ UNCHANGED <<tasks, ti, dest, nchunks, ci, temp_files, target, attempt,
                   tier, last_error, raised, signals, hpc, callLog, jobVars, chunkVars, codecVars, ssmlVars>>

\* the loop of _generate_audio goes on after a failed attempt, or ends and
\* the final error is raised
AfterAttempt(tr, e) ==
    IF HasNextAttempt(attempt)
    THEN /\ attempt' = attempt + 1
         /\ tier' = FirstTier
         /\ trace' = tr
         /\ wpc' = "tier_start"
         /\ UNCHANGED <<temp_files, ci, fs, raised, signals, target, nchunks>>
    ELSE /\ trace' = Append(tr, Ev("raise", attempt, tier, 0))
         /\ GaRaised(FinalError(e))
         /\ UNCHANGED <<attempt, tier>>

\* except Exception as e in _generate_audio
AttemptFailed(e) ==
    /\ last_error' = e
    /\ LET tr == Append(trace, Ev(Outcome(e), attempt, tier, 0)) IN
       IF ShouldSleep(attempt)
       THEN /\ trace' = Append(tr, Ev("sleep", attempt, tier,
                                      BackoffSeconds(attempt)))
            /\ wpc' = "ga_sleep"
            /\ UNCHANGED <<attempt, tier, temp_files, ci, fs, raised, signals,
                           target, nchunks>>
       ELSE AfterAttempt(tr, e)

\* save() of an SSMLCommunicate of block 1) or 2) returned or raised
TierResult ==
    /\ wpc = "tier_wait"
    /\ sess.pc = "done"
    /\ sess' = NewSession
    /\ IF SessionSucceeded(sess.result)
       THEN /\ trace' = Append(trace, Ev(Outcome(sess.result), attempt, tier, 0))
            /\ GaReturned
       ELSE IF TierCatches(tier)
       THEN /\ trace' = Append(trace, Ev(Outcome(sess.result), attempt, tier, 0))
            /\ tier' = NextTier(tier)
            /\ wpc' = "tier_start"
            /\ UNCHANGED <<attempt, last_error, temp_files, ci, fs, raised,
                           signals, target, nchunks>>
       ELSE AttemptFailed(sess.result)
    /\ UNCHANGED <<tasks, ti, dest, hpc, callLog, jobVars, chunkVars, codecVars, ssmlVars>>

\* block 3): edge_tts.Communicate.save writes an audio message
LibWrite(d) ==
    /\ wpc = "tier3_wait"
    /\ Len(fs[target]) < MaxFrames
    /\ fs' = [fs EXCEPT ![target] = Append(@, d)]
    /\ UNCHANGED <<wpc, tasks, ti, dest, nchunks, ci, temp_files, target,
                   attempt, tier, last_error, raised, sess, signals,
                   trace, hpc, callLog, jobVars, chunkVars, codecVars, ssmlVars>>

\* outcomes of asyncio.wait_for(communicator.save(...), timeout)
LibOutcomes == {"ok", "NoAudioReceived", "TimeoutError", "WebSocketError"}

\* block 3): the wait_for returned or raised
LibFinish(o) ==
    /\ wpc = "tier3_wait"
    /\ o = "ok" => fs[target] # << >>
    /\ o = "NoAudioReceived" => fs[target] = << >>
    /\ IF SessionSucceeded(o)
       THEN /\ trace' = Append(trace, Ev(Outcome(o), attempt, tier, 0))
            /\ GaReturned
       ELSE AttemptFailed(o)
    /\ UNCHANGED <<tasks, ti, dest, sess, hpc, callLog, jobVars, chunkVars, codecVars, ssmlVars>>

\* asyncio.sleep is over, the for loop of _generate_audio goes on
SleepDone ==
    /\ wpc = "ga_sleep"
    /\ AfterAttempt(trace, last_error)
    /\ UNCHANGED <<tasks, ti, dest, last_error, sess, hpc, callLog, jobVars, chunkVars, codecVars, ssmlVars>>

(* ------------------------ _merge_audio_files --------------------------- *)

\* the chunk loop is over; _merge_audio_files writes the manifest and
\* starts ffmpeg
MergeWrite ==
    /\ wpc = "chunk_loop"
    /\ ci > nchunks
    /\ fs' = (ListFile(dest) :> temp_files) @@ fs
    /\ wpc' = "ffmpeg"
    /\ UNCHANGED <<tasks, ti, dest, nchunks, ci, temp_files, target, attempt,
                   tier, last_error, raised, sess, signals, trace, hpc,
                   callLog, jobVars, chunkVars, codecVars, ssmlVars>>

MergeOutcomes == {"ok", "nonzero", "cannot_start"}

\* subprocess.run(cmd, check=True, ...) raises: CalledProcessError for a
\* non-zero exit, FileNotFoundError when ffmpeg cannot be started
\* (faulty variant: check=True is missing)
MergeRaisesMut(o) == o = "cannot_start"
MergeRaises(o) == o # "ok"

\* the finally clause of _merge_audio_files: list_file is unlinked
\* (faulty variant: the unlink follows subprocess.run inside the try)
RemoveManifestMut(f, list_file, o) ==
    IF o = "ok" THEN Unlink(f, <<list_file>>) ELSE f
RemoveManifest(f, list_file, o) == Unlink(f, <<list_file>>)

\* the exception _merge_audio_files raises for an outcome of subprocess.run;
\* the message of the RuntimeError is built from the stderr of the
\* CalledProcessError, which cause stands for
MergeError(o) ==
    IF o = "nonzero"
    THEN [kind |-> "RuntimeError", userFacing |-> TRUE,
          cause |-> "CalledProcessError"]
    ELSE [kind |-> "FileNotFoundError", userFacing |-> FALSE, cause |-> None]

\* subprocess.run is over: finally of _merge_audio_files, then the finally
\* of _generate_single_file, then _process_batch goes on
MergeRun(o) ==
    /\ wpc = "ffmpeg"
    /\ LET manifest == fs[ListFile(dest)]
           written == IF o = "ok"
                      THEN (dest :> ConcatFiles(fs, manifest)) @@ fs
                      ELSE fs
       IN fs' = Unlink(RemoveManifest(written, ListFile(dest), o), temp_files)
    /\ IF MergeRaises(o)
       THEN BatchFailed(MergeError(o)) /\ UNCHANGED <<nchunks, ci, temp_files>>
       ELSE FileDone /\ UNCHANGED raised
    /\ UNCHANGED <<tasks, ti, dest, target, attempt, tier, last_error, sess,
                   trace, hpc, callLog, jobVars, chunkVars, codecVars, ssmlVars>>

Next ==
    \/ \E batch \in TaskSeqs : ProcessRequest(batch)
    \/ BatchNext
    \/ BatchFinish
    \/ \E n \in ChunkCounts : GenerateSingleFile(n)
    \/ ChunkNext
    \/ TierStart
    \/ TierResult
    \/ \E d \in WorkerPayloads : LibWrite(d)
    \/ \E o \in LibOutcomes : LibFinish(o)
    \/ SleepDone
    \/ MergeWrite
    \/ \E o \in MergeOutcomes : MergeRun(o)
    \/ \E o \in ConnectOutcomes : Connect(o)
    \/ \E f \in ServerFrames(WorkerPayloads) : Receive(f)
    \/ ConnectionClosed
    \/ ReceiveTimeout

Spec == Init /\ [][Next]_vars

(* ------- batches of several one-chunk texts (SpecBatch) ----------------- *)
\* the task lists of SpecBatch: as TaskSeqs, with up to MaxBatchTasks tasks
BatchTaskSeqs ==
    {b \in UNION {[1..n -> Tasks] : n \in 1..MaxBatchTasks} :
        Len(b) > 1 => \A i \in DOMAIN b : b[i].given}

\* the worker with texts that are empty or of one chunk after pre-processing
NextBatch ==
    \/ \E batch \in BatchTaskSeqs : ProcessRequest(batch)
    \/ BatchNext
    \/ BatchFinish
    \/ \E n \in {0, 1} : GenerateSingleFile(n)
    \/ TierStart
    \/ TierResult
    \/ \E d \in WorkerPayloads : LibWrite(d)
    \/ \E o \in LibOutcomes : LibFinish(o)
    \/ SleepDone
    \/ \E o \in ConnectOutcomes : Connect(o)
    \/ \E f \in ServerFrames(WorkerPayloads) : Receive(f)
    \/ ConnectionClosed
    \/ ReceiveTimeout

SpecBatch == Init /\ [][NextBatch]_vars



(* ============ the worker thread, its loop and the requests ============= *)

\* values of the parameter tuple of one request (voice_id, rate, proxy,
\* pause_ms, output_format, ...)
Params == {"A", "B"}

\* everything of the worker that SpecJobs leaves alone
jobFrame == <<wpc, tasks, ti, dest, nchunks, ci, temp_files, target, attempt,
              tier, last_error, raised, trace, sess, fs, hpc, callLog,
              chunkVars, codecVars, ssmlVars>>

\* a coroutine object handed to run_coroutine_threadsafe: args are the
\* arguments it was created with, read the parameters it last worked with
LoopTask(kind, args) ==
    [kind |-> kind, args |-> args, pc |-> "scheduled", awaits |-> 0,
     read |-> None]

InitJobs ==
    /\ wpc = "off" /\ tasks = << >> /\ ti = 0 /\ dest = NoPath /\ nchunks = 0
    /\ ci = 0 /\ temp_files = << >> /\ target = NoPath /\ attempt = 0
    /\ tier = 0 /\ last_error = None /\ raised = NoExc
    /\ signals = << >> /\ trace = << >>
    /\ sess = NewSession
    /\ fs = << >>
    /\ hpc = "off"
    /\ callLog = << >>
    /\ JobsOff /\ ChunkerOff /\ CodecOff /\ SsmlOff

\* run(): the loop is created, _ready_event is set, ready is emitted, the
\* loop runs
Run ==
    /\ ~ready_event
    /\ ready_event' = TRUE
    /\ loop' = "running"
    /\ signals' = Append(signals, Sig("ready", 0))
    /\ UNCHANGED <<loopTasks, stored, jobFrame>>

\* the finally clause of run(): every task not yet done is cancelled; the
\* CancelledError passes the `except Exception` clauses, so no signal is
\* emitted.  A terminated thread leaves its tasks where they are.
AfterStop(t, o) ==
    IF o = "closed" /\ t.pc # "done" THEN [t EXCEPT !.pc = "cancelled"] ELSE t

\* stop(), called from the GUI thread (_on_stop_batch) while the loop runs;
\* _ready_event is not cleared and self.loop is not reset.  o is how it
\* ends: run() came to its finally clause within the 3 seconds and closed
\* the loop, or the thread was terminated and the loop is left as it was
Stop(o) ==
    /\ loop = "running"
    /\ loop' = o
    /\ loopTasks' = [j \in DOMAIN loopTasks |-> AfterStop(loopTasks[j], o)]
    /\ UNCHANGED <<ready_event, stored, signals, jobFrame>>

\* asyncio.run_coroutine_threadsafe(coro, self.loop): call_soon_threadsafe
\* of a closed loop raises RuntimeError in the caller and the coroutine is
\* dropped; that of a loop that runs, or that no thread runs any more,
\* queues it
Scheduled(l) == IF l = "closed" THEN "raised" ELSE "scheduled"

\* the body shared by process_request and process_srt_request: the
\* readiness test, then run_coroutine_threadsafe; nothing else is tested
\* (the error "Worker not ready." is the error signal of no job: job 0)
Submit(kind, p) ==
    IF ~ready_event \/ loop = None
    THEN /\ signals' = Append(signals, Sig("error", 0))
         /\ UNCHANGED <<ready_event, loopTasks, stored, loop, jobFrame>>
    ELSE /\ loopTasks' = Append(loopTasks, [LoopTask(kind, p) EXCEPT
                                               !.pc = Scheduled(loop)])
         /\ UNCHANGED <<ready_event, stored, signals, loop, jobFrame>>

\* requests made so far
Requests ==
    Len(loopTasks)
    + Cardinality({i \in DOMAIN signals : signals[i] = Sig("error", 0)})

\* process_request(tasks, voice_id, rate, ...), called from the GUI thread
SubmitBatch(p) ==
    /\ Requests < MaxJobs
    /\ Submit("batch", p)

\* process_srt_request(...), called from the GUI thread
SubmitSrt(p) ==
    /\ Requests < MaxJobs
    /\ Submit("srt", p)

\* what `self.voice_id = voice_id ...` at the head of _process_batch leaves
\* on the worker; _process_srt_request stores nothing
StoreParams(t, old) == IF t.kind = "batch" THEN t.args ELSE old

\* the parameters a resumed coroutine works with: _process_batch and its
\* helpers read them from self, _process_srt_request has them as arguments
ReadParams(t, st) == IF t.kind = "batch" THEN st ELSE t.args

\* the loop runs the first step of the oldest coroutine not yet started, up
\* to its first await
JobStart(j) ==
    /\ loop = "running"
    /\ j \in DOMAIN loopTasks
    /\ loopTasks[j].pc = "scheduled"
    /\ \A i \in 1..(j-1) : loopTasks[i].pc # "scheduled"
    /\ stored' = StoreParams(loopTasks[j], stored)
    /\ loopTasks' = [loopTasks EXCEPT ![j].pc = "running"]
    /\ UNCHANGED <<ready_event, signals, loop, jobFrame>>

\* an awaited operation of coroutine j is over: the coroutine goes on to
\* its next await (next tier, attempt, chunk or file) with the parameters
\* it finds
JobResume(j) ==
    /\ loop = "running"
    /\ j \in DOMAIN loopTasks
    /\ loopTasks[j].pc = "running"
    /\ loopTasks[j].awaits < MaxAwaits
    /\ loopTasks' = [loopTasks EXCEPT
                        ![j].awaits = @ + 1,
                        ![j].read = ReadParams(loopTasks[j], stored)]
    /\ UNCHANGED <<ready_event, stored, signals, loop, jobFrame>>

\* coroutine j ends with finished or error
JobEnd(j, sig) ==
    /\ loop = "running"
    /\ j \in DOMAIN loopTasks
    /\ loopTasks[j].pc = "running"
    /\ loopTasks' = [loopTasks EXCEPT ![j].pc = "done"]
    /\ signals' = Append(signals, Sig(sig, j))
    /\ UNCHANGED <<ready_event, stored, loop, jobFrame>>

NextJobs ==
    \/ Run
    \/ \E o \in {"closed", "terminated"} : Stop(o)
    \/ \E p \in Params : SubmitBatch(p)
    \/ \E p \in Params : SubmitSrt(p)
    \/ \E j \in 1..MaxJobs : JobStart(j)
    \/ \E j \in 1..MaxJobs : JobResume(j)
    \/ \E j \in 1..MaxJobs, sig \in {"finished", "error"} : JobEnd(j, sig)

SpecJobs == InitJobs /\ [][NextJobs]_vars


(* ============================ _chunk_text ============================== *)

\* a str is a sequence of characters; the characters of the texts of
\* SpecChunk: a letter, two sentence marks, blank and newline
Chars == {"a", ".", "?", " ", "\n"}
Whitespace == {" ", "\n"}

Min(a, b) == IF a < b THEN a ELSE b
Max(S) == CHOOSE x \in S : \A y \in S : y <= x

\* s[a:b] for 0 <= a
Slice(s, a, b) == SubSeq(s, a + 1, Min(b, Len(s)))

\* s.strip()
\* (faulty variant: nothing is removed)
StripMut(s) == s
Strip(s) ==
    LET keep == {i \in DOMAIN s : s[i] \notin Whitespace} IN
    IF keep = {} THEN << >>
    ELSE SubSeq(s, CHOOSE i \in keep : \A j \in keep : i <= j, Max(keep))

\* s.rfind(sub): the highest index sub starts at, -1 if there is none
RFind(s, sub) ==
    Max({-1} \cup {i \in 0..(Len(s) - Len(sub)) :
                      SubSeq(s, i + 1, i + Len(sub)) = sub})

\* the list the for loop of _chunk_text goes through
SentenceEnds ==
    << <<".", " ">>, <<"!", " ">>, <<"?", " ">>,
       <<".", "\n">>, <<"!", "\n">>, <<"?", "\n">> >>

\* split_idx after the for loop: the position after the last sentence mark
\* that is followed by blank or newline, -1 if there is none
SentenceIdx(limit_text) ==
    Max({-1} \cup {RFind(limit_text, SentenceEnds[k]) + 1 :
                      k \in {n \in DOMAIN SentenceEnds :
                                RFind(limit_text, SentenceEnds[n]) # -1}})

\* split_idx of one iteration of the while loop
SplitIdx(limit_text, m) ==
    IF SentenceIdx(limit_text) # -1 THEN SentenceIdx(limit_text)
    ELSE IF RFind(limit_text, <<"\n">>) # -1 THEN RFind(limit_text, <<"\n">>)
    ELSE IF RFind(limit_text, <<" ">>) # -1 THEN RFind(limit_text, <<" ">>)
    ELSE m

\* len(text) <= max_chars: the early return and the end of the while loop
\* (faulty variant: one character more is let through)
FitsMut(t, m) == Len(t) <= m + 1
Fits(t, m) == Len(t) <= m

\* chunks.append(text[:split_idx].strip())
Piece(t, split_idx) == Strip(Slice(t, 0, split_idx))

\* text = text[split_idx:].strip()
\* (faulty variant: the character at split_idx is skipped)
RestMut(t, split_idx) == Strip(Slice(t, split_idx + 1, Len(t)))
Rest(t, split_idx) == Strip(Slice(t, split_idx, Len(t)))

\* the texts _generate_single_file calls _chunk_text with: not empty and not
\* only whitespace
Texts ==
    {t \in UNION {[1..n -> Chars] : n \in 1..MaxLen} : Strip(t) # << >>}

\* everything SpecChunk leaves alone
chunkFrame == <<wpc, tasks, ti, dest, nchunks, ci, temp_files, target,
                attempt, tier, last_error, raised, signals, trace, sess, fs,
                hpc, callLog, jobVars, codecVars, ssmlVars>>

\* the call _chunk_text(text, max_chars)
InitChunk ==
    /\ wpc = "off" /\ tasks = << >> /\ ti = 0 /\ dest = NoPath /\ nchunks = 0
    /\ ci = 0 /\ temp_files = << >> /\ target = NoPath /\ attempt = 0
    /\ tier = 0 /\ last_error = None /\ raised = NoExc
    /\ signals = << >> /\ trace = << >>
    /\ sess = NewSession
    /\ fs = << >>
    /\ hpc = "off"
    /\ callLog = << >>
    /\ JobsOff /\ CodecOff /\ SsmlOff
    /\ text \in Texts
    /\ max_chars \in 1..MaxChars
    /\ input = text
    /\ chunks = << >>
    /\ cpc = "entry"

\* if len(text) <= max_chars: return [text]
ChunkEntry ==
    /\ cpc = "entry"
    /\ IF Fits(text, max_chars)
       THEN chunks' = <<text>> /\ cpc' = "returned"
       ELSE chunks' = << >> /\ cpc' = "while"
    /\ UNCHANGED <<text, max_chars, input, chunkFrame>>

\* one iteration of `while len(text) > max_chars`
ChunkSplit ==
    /\ cpc = "while"
    /\ ~Fits(text, max_chars)
    /\ LET split_idx == SplitIdx(Slice(text, 0, max_chars), max_chars) IN
       /\ chunks' = Append(chunks, Piece(text, split_idx))
       /\ text' = Rest(text, split_idx)
    /\ UNCHANGED <<max_chars, input, cpc, chunkFrame>>

\* the loop is over: `if text: chunks.append(text)`, then return chunks
ChunkReturn ==
    /\ cpc = "while"
    /\ Fits(text, max_chars)
    /\ chunks' = IF text # << >> THEN Append(chunks, text) ELSE chunks
    /\ cpc' = "returned"
    /\ UNCHANGED <<text, max_chars, input, chunkFrame>>

NextChunk ==
    \/ ChunkEntry
    \/ ChunkSplit
    \/ ChunkReturn

SpecChunk == InitChunk /\ [][NextChunk]_vars

\* _chunk_text is synchronous code without awaits: once called it runs on
\* until it returns
InitChunkFair == InitChunk /\ Len(text) <= MaxFairLen

SpecChunkFair == InitChunkFair /\ [][NextChunk]_vars /\ WF_vars(NextChunk)


(* ============ app/ssml_client.py: the message codec (SpecCodec) ========= *)
\* A byte string is a sequence of tokens: the bytes "\r", "\n" and ":" are
\* tokens of their own, every other token is a run of bytes that holds none
\* of the three.
CRLF == <<"\r", "\n">>

\* s.find(sub): the lowest index sub starts at, -1 if there is none
Find(s, sub) ==
    LET hits == {i \in 0..(Len(s) - Len(sub)) :
                    SubSeq(s, i + 1, i + Len(sub)) = sub} IN
    IF hits = {} THEN -1 ELSE CHOOSE i \in hits : \A j \in hits : i <= j

\* s[:n], n of either sign
Prefix(s, n) == IF n >= 0 THEN Slice(s, 0, n) ELSE Slice(s, 0, Len(s) + n)

\* s[n:] for 0 <= n
Suffix(s, n) == Slice(s, n, Len(s))

\* s.split(sep)
RECURSIVE Split(_, _)
Split(s, sep) ==
    LET i == Find(s, sep) IN
    IF i = -1 THEN <<s>>
    ELSE <<Prefix(s, i)>> \o Split(Suffix(s, i + Len(sep)), sep)

\* ssml_headers_plus_data(request_id, timestamp, ssml)
ssml_headers_plus_data(request_id, timestamp, ssml) ==
    <<"X-RequestId", ":">> \o request_id \o CRLF
    \o <<"Content-Type", ":", "application/ssml+xml">> \o CRLF
    \o <<"X-Timestamp", ":">> \o timestamp \o <<"Z">> \o CRLF
    \o <<"Path", ":", "ssml">> \o CRLF \o CRLF
    \o ssml

\* the JSON text of send_command_request
ConfigJson(output_format) ==
    <<"{\"context\"", ":", "{\"synthesis\"", ":", "{\"audio\"", ":",
      "{\"metadataoptions\"", ":", "{\"sentenceBoundaryEnabled\"", ":",
      "\"false\",\"wordBoundaryEnabled\"", ":", "\"false\"},\"outputFormat\"",
      ":", "\"">> \o output_format \o <<"\"}}}}">>

\* the string send_command_request sends, date being date_to_string()
send_command_request(date, output_format) ==
    <<"X-Timestamp", ":">> \o date \o CRLF
    \o <<"Content-Type", ":", "application/json; charset=utf-8">> \o CRLF
    \o <<"Path", ":", "speech.config">> \o CRLF \o CRLF
    \o ConfigJson(output_format) \o CRLF

\* the dict the for loop of get_headers_and_data leaves: a later line with
\* the same key replaces an earlier one
HeaderDict(lines) ==
    LET key(k) == Prefix(lines[k], Find(lines[k], <<":">>))
        value(k) == Suffix(lines[k], Find(lines[k], <<":">>) + 1)
        keys == {key(k) : k \in DOMAIN lines} IN
    [h \in keys |-> value(Max({k \in DOMAIN lines : key(k) = h}))]

\* get_headers_and_data(data, header_length); `key, value = line.split(b":", 1)`
\* raises ValueError for a line without a colon
get_headers_and_data(data, header_length) ==
    LET lines == Split(Prefix(data, header_length), CRLF) IN
    IF \E k \in DOMAIN lines : Find(lines[k], <<":">>) = -1
    THEN [raised |-> "ValueError", headers |-> << >>, data |-> << >>]
    ELSE [raised |-> None, headers |-> HeaderDict(lines),
          data |-> Suffix(data, header_length + 2)]

\* connect_id(): hexadecimal digits
RequestIds == {<<"0f8fad5bd9cb469fa16570867728950e">>,
               <<"7c9e6679742540de944be07fc1f90ae7">>}

\* date_to_string(): the time of day is written with colons
Timestamps ==
    {<<"Tue Nov 03 2026 09", ":", "05", ":",
       "07 GMT+0000 (Coordinated Universal Time)">>,
     <<"Wed Nov 04 2026 23", ":", "59", ":",
       "59 GMT+0000 (Coordinated Universal Time)">>}

\* the output_format argument of SSMLCommunicate
OutputFormats == {<<"audio-24khz-48kbitrate-mono-mp3">>,
                  <<"riff-24khz-16bit-mono-pcm">>}

\* what an SSML document is made of; it may hold line ends and colons
Ssmls == UNION {[1..n -> {"<speak/>", ":", "\r", "\n"}] : n \in 0..MaxBody}

\* the messages a session encodes
Messages ==
    [kind : {"config"}, timestamp : Timestamps, output_format : OutputFormats]
    \cup [kind : {"ssml"}, request_id : RequestIds, timestamp : Timestamps,
          ssml : Ssmls]

\* everything SpecCodec leaves alone
codecFrame == <<wpc, tasks, ti, dest, nchunks, ci, temp_files, target,
                attempt, tier, last_error, raised, signals, trace, sess, fs,
                hpc, callLog, jobVars, chunkVars, ssmlVars>>

\* a message is about to be sent
InitCodec ==
    /\ wpc = "off" /\ tasks = << >> /\ ti = 0 /\ dest = NoPath /\ nchunks = 0
    /\ ci = 0 /\ temp_files = << >> /\ target = NoPath /\ attempt = 0
    /\ tier = 0 /\ last_error = None /\ raised = NoExc
    /\ signals = << >> /\ trace = << >>
    /\ sess = NewSession
    /\ fs = << >>
    /\ hpc = "off"
    /\ callLog = << >>
    /\ JobsOff /\ ChunkerOff /\ SsmlOff
    /\ msg \in Messages
    /\ wire = << >>
    /\ decoded = << >>
    /\ kpc = "encode"

\* send_command_request() / send_ssml_request() build the string to send
Encode ==
    /\ kpc = "encode"
    /\ wire' = IF msg.kind = "config"
               THEN send_command_request(msg.timestamp, msg.output_format)
               ELSE ssml_headers_plus_data(msg.request_id, msg.timestamp,
                                           msg.ssml)
    /\ kpc' = "decode"
    /\ UNCHANGED <<msg, decoded, codecFrame>>

\* the TEXT branch of the frame loop applied to the string:
\* get_headers_and_data(encoded_data, encoded_data.find(b"\r\n\r\n"))
Decode ==
    /\ kpc = "decode"
    /\ decoded' = get_headers_and_data(wire, Find(wire, CRLF \o CRLF))
    /\ kpc' = "done"
    /\ UNCHANGED <<msg, wire, codecFrame>>

NextCodec ==
    \/ Encode
    \/ Decode

SpecCodec == InitCodec /\ [][NextCodec]_vars


(* ====== app/tts_worker.py: the requests of the three blocks (SpecSsml) == *)
\* Strings are sequences of tokens: a character of the text, a "-" of a
\* voice identifier, a number written out, or a piece of literal markup.

\* xml.sax.saxutils.escape
Escape(s) ==
    [i \in DOMAIN s |->
        IF s[i] = "&" THEN "&amp;" ELSE IF s[i] = "<" THEN "&lt;"
        ELSE IF s[i] = ">" THEN "&gt;" ELSE s[i]]

\* rate_str = f"{self.rate:+d}%"
RateStr(rate) ==
    IF rate >= 0 THEN <<"+", ToString(rate), "%">>
    ELSE <<"-", ToString(0 - rate), "%">>

\* _voice_lang()
VoiceLang(voice_id) ==
    LET parts == Split(voice_id, <<"-">>) IN
    IF Len(parts) >= 2 THEN parts[1] \o <<"-">> \o parts[2]
    ELSE <<"en", "-", "US">>

\* the character class of _inject_breaks: . ! ? : and the ellipsis
\* character, written "..." here
BreakPunctuation == {".", "!", "?", ":", "..."}

RECURSIVE InjectBreaks(_, _)
\* _inject_breaks(text, pause_value): the tag goes between a run of
\* punctuation and the whitespace that follows it
InjectBreaks(s, pause_value) ==
    IF s = << >> THEN << >>
    ELSE IF /\ Len(s) >= 2 /\ s[1] \in BreakPunctuation /\ s[2] \in Whitespace
    THEN <<s[1], "<break time=\"", ToString(pause_value), "ms\"/>">>
         \o InjectBreaks(Tail(s), pause_value)
    ELSE <<s[1]>> \o InjectBreaks(Tail(s), pause_value)

\* literal markup of _build_ssml
SpeakOpen ==
    "<speak version=\"1.0\" xmlns=\"http://www.w3.org/2001/10/synthesis\"\n       xmlns:mstts=\"http://www.w3.org/2001/mstts\" xml:lang=\""
VoiceOpen == "  <voice name=\""
TagEnd == "\">\n"
SilenceOpen == "    <mstts:silence type=\"Sentenceboundary-exact\" value=\""
VoiceClose == "  </voice>\n"

\* silence_block of _build_ssml
\* (faulty variant: the element is written for every pause value)
SilenceBlockMut(use_silence, pause_value) ==
    IF use_silence
    THEN <<SilenceOpen, ToString(pause_value), "ms\"/>\n">> ELSE << >>
SilenceBlock(use_silence, pause_value) ==
    IF use_silence /\ pause_value > 0
    THEN <<SilenceOpen, ToString(pause_value), "ms\"/>\n">> ELSE << >>

\* _build_ssml(text, rate_str, use_silence, raw_content) of a worker whose
\* voice_id, rate and pause_ms are those of r
BuildSsml(r, txt, rate_str, use_silence, raw_content) ==
    LET stripped == Strip(txt)
        escaped_text == IF raw_content THEN stripped ELSE Escape(stripped)
        lang == VoiceLang(r.voice_id)
        pause_value == Max({0, r.pause_ms})
        body_text == IF pause_value > 0
                     THEN InjectBreaks(escaped_text, pause_value)
                     ELSE escaped_text
        body == IF r.rate # 0
                THEN <<"<prosody rate=\"">> \o rate_str \o <<"\">">>
                     \o body_text \o <<"</prosody>">>
                ELSE body_text
    IN <<SpeakOpen>> \o lang \o <<TagEnd>>
       \o <<VoiceOpen>> \o Escape(r.voice_id) \o <<TagEnd>>
       \o SilenceBlock(use_silence, pause_value)
       \o <<"    ">> \o body \o <<"\n">>
       \o <<VoiceClose, "</speak>">>

\* literal markup of the raw request of block 3)
RawSpeakOpen ==
    "<speak version='1.0' xmlns='http://www.w3.org/2001/10/synthesis' xml:lang='"
RawTagEnd == "'>"

\* the f-string of block 3) for use_stress
RawSsml(r, txt, rate_str) ==
    <<RawSpeakOpen, "ru", "-", "RU", RawTagEnd>>
    \o <<"<voice name='">> \o r.voice_id \o <<RawTagEnd>>
    \o <<"<prosody rate='">> \o rate_str \o <<"' pitch='+0Hz'>">>
    \o txt
    \o <<"</prosody>", "</voice>", "</speak>">>

\* what a block hands to its communicator: SSMLCommunicate(ssml) in blocks
\* 1) and 2), edge_tts.Communicate(ssml, raw_ssml=True) or
\* edge_tts.Communicate(text.strip(), voice_id, rate=rate_str) in block 3)
BlockRequest(r, t) ==
    LET rate_str == RateStr(r.rate) IN
    IF t = SilenceTagged
    THEN [tier |-> t, kind |-> "ssml",
          body |-> BuildSsml(r, r.text, rate_str, TRUE, r.use_stress)]
    ELSE IF t = BreakTagged
    THEN [tier |-> t, kind |-> "ssml",
          body |-> BuildSsml(r, r.text, rate_str, FALSE, r.use_stress)]
    ELSE IF r.use_stress
    THEN [tier |-> t, kind |-> "ssml", body |-> RawSsml(r, r.text, rate_str)]
    ELSE [tier |-> t, kind |-> "text", body |-> Strip(r.text)]

\* the voices of the selector (voices.py), of the voice markers and of
\* TTS_DEFAULT_VOICE
VoiceIds ==
    {<<"ru", "-", "RU", "-", "DmitryNeural">>,
     <<"en", "-", "US", "-", "JennyNeural">>,
     <<"zh", "-", "CN", "-", "liaoning", "-", "XiaobeiNeural">>}

\* rate_spin has the range -50..50, pause_spin the range 0..2000
Rates == {-50, 0}
Pauses == {0, 300}

\* the chunks handed to _attempt_generate_audio
SsmlTexts == UNION {[1..n -> {".", " ", "<"}] : n \in 0..MaxText}

\* the arguments and worker attributes one _attempt_generate_audio call sees
SsmlRequests ==
    [text : SsmlTexts, rate : Rates, pause_ms : Pauses, voice_id : VoiceIds,
     use_stress : BOOLEAN]

\* everything SpecSsml leaves alone
ssmlFrame == <<wpc, tasks, ti, dest, nchunks, ci, temp_files, target,
               attempt, tier, last_error, raised, signals, trace, sess, fs,
               hpc, callLog, jobVars, chunkVars, codecVars>>

\* the call _attempt_generate_audio(destination, text, rate_str)
InitSsml ==
    /\ wpc = "off" /\ tasks = << >> /\ ti = 0 /\ dest = NoPath /\ nchunks = 0
    /\ ci = 0 /\ temp_files = << >> /\ target = NoPath /\ attempt = 0
    /\ tier = 0 /\ last_error = None /\ raised = NoExc
    /\ signals = << >> /\ trace = << >>
    /\ sess = NewSession
    /\ fs = << >>
    /\ hpc = "off"
    /\ callLog = << >>
    /\ JobsOff /\ ChunkerOff /\ CodecOff
    /\ req \in SsmlRequests
    /\ built = << >>
    /\ bpc = SilenceTagged

\* a block builds its request; bpc is the block that runs next
BuildBlock ==
    /\ bpc \in {SilenceTagged, BreakTagged, PlainOrRawText}
    /\ Len(built) < bpc
    /\ built' = Append(built, BlockRequest(req, bpc))
    /\ UNCHANGED <<req, bpc, ssmlFrame>>

\* the session of block 1) or 2) failed: the except clause falls through
BlockFailed ==
    /\ bpc \in {SilenceTagged, BreakTagged}
    /\ Len(built) = bpc
    /\ bpc' = NextTier(bpc)
    /\ UNCHANGED <<req, built, ssmlFrame>>

\* the session of a block succeeded (return), or that of block 3) raised
BlockEnds ==
    /\ bpc \in {SilenceTagged, BreakTagged, PlainOrRawText}
    /\ Len(built) = bpc
    /\ bpc' = PlainOrRawText + 1
    /\ UNCHANGED <<req, built, ssmlFrame>>

NextSsml ==
    \/ BuildBlock
    \/ BlockFailed
    \/ BlockEnds

SpecSsml == InitSsml /\ [][NextSsml]_vars


(* ============================ properties =============================== *)

InGenerateAudio == wpc \in {"tier_start", "tier_wait", "tier3_wait", "ga_sleep"}

HasEvent(ev) == \E i \in DOMAIN trace : trace[i].ev = ev

Starts(t) ==
    Cardinality({i \in DOMAIN trace : trace[i].ev = "start" /\ trace[i].tier = t})

Count(ev) == Cardinality({i \in DOMAIN trace : trace[i].ev = ev})

\* C1: within one _generate_audio call the sessions are started in the order
\* SilenceTagged, BreakTagged, PlainOrRawText: a session of a tier is started
\* right after the failure of the previous tier of the same sweep, after
\* every earlier tier of the sweep has failed, a sweep starts with
\* SilenceTagged, no (sweep, tier) is started twice and nothing is started
\* after a success.
C1_TierOrder ==
    \A i \in DOMAIN trace :
        trace[i].ev = "start" =>
            LET e == trace[i] IN
            /\ e.tier \in {SilenceTagged, BreakTagged, PlainOrRawText}
            /\ e.tier = SilenceTagged =>
                  \/ i = 1 /\ e.attempt = 1
                  \/ /\ i > 2
                     /\ trace[i-1].ev = "sleep"
                     /\ trace[i-2] = Ev("fail", e.attempt - 1, PlainOrRawText, 0)
            /\ e.tier # SilenceTagged =>
                  i > 1 /\ trace[i-1] = Ev("fail", e.attempt, e.tier - 1, 0)
            /\ \A t \in 1..(e.tier - 1) :
                  \E j \in 1..(i-1) : trace[j] = Ev("fail", e.attempt, t, 0)
            /\ \A j \in 1..(i-1) :
                  /\ trace[j].ev # "ok"
                  /\ trace[j].ev = "start" =>
                        <<trace[j].attempt, trace[j].tier>> # <<e.attempt, e.tier>>

\* the third tier is started in the second sweep
C1_Witness == \E i \in DOMAIN trace : trace[i] = Ev("start", 2, PlainOrRawText, 0)

\* the call returned and, in it, every session of tiers 1 and 2 failed and
\* every session of tier 3 succeeded
ReturnedWithFake ==
    /\ trace # << >>
    /\ Last(trace).ev = "ok"
    /\ \A i \in DOMAIN trace :
          /\ trace[i].ev = "ok" => trace[i].tier = PlainOrRawText
          /\ trace[i].ev = "fail" => trace[i].tier # PlainOrRawText

C3_StopOnSuccess ==
    \A i \in DOMAIN trace :
        trace[i].ev = "ok" => i = Len(trace) /\ ~InGenerateAudio

\* the BreakTagged session of the second sweep succeeded
C3_Witness ==
    /\ trace # << >>
    /\ Last(trace) = Ev("ok", 2, BreakTagged, 0)

\* C4: while a _generate_audio call runs nothing has been raised to or
\* reported by its caller, and when it raises, each of the 3 tiers has
\* failed in each of the 3 attempts: 9 failed sessions.
C4_RaiseAfterNine ==
    /\ InGenerateAudio =>
          /\ raised = NoExc
          /\ \A i \in DOMAIN signals : signals[i].sig # "error"
    /\ HasEvent("raise") =>
          /\ \A a \in 1..max_retries :
                \A t \in {SilenceTagged, BreakTagged, PlainOrRawText} :
                    \E j \in DOMAIN trace : trace[j] = Ev("fail", a, t, 0)
          /\ Count("fail") = 9
          /\ Count("start") = 9
    /\ (raised # NoExc /\ raised.kind # "FileNotFoundError"
          /\ raised.cause # "CalledProcessError") => HasEvent("raise")

C4_Witness == HasEvent("raise") /\ wpc = "done"

\* C5 as stated: whatever the last failure was, the error raised after the
\* last attempt is the user-facing one and carries the last error as cause.
C5_AlwaysUserFacing ==
    HasEvent("raise") => raised.userFacing /\ raised.cause = last_error

\* C5 amended: after the last attempt, if the last failure is
\* NoAudioReceived the user-facing RuntimeError is raised with that failure
\* as its cause; for any other last failure that failure itself is raised.
C5_UserFacingOnlyForNoAudio ==
    HasEvent("raise") =>
        /\ last_error # None
        /\ IF last_error = "NoAudioReceived"
           THEN raised = [kind |-> "RuntimeError", userFacing |-> TRUE,
                          cause |-> last_error]
           ELSE raised = [kind |-> last_error, userFacing |-> FALSE,
                          cause |-> None]

C5_Witness == HasEvent("raise") /\ last_error = "TimeoutError"

\* C6: at most 3 attempts; a sleep follows a failed attempt that is not the
\* last one and lasts as many seconds as the number of that attempt (1, 2);
\* a failed attempt before the last is followed by its sleep; nothing else
\* is followed by a sleep.
C6_LinearBackoff ==
    /\ \A i \in DOMAIN trace :
          /\ trace[i].attempt \in 1..3
          /\ trace[i].ev = "sleep" =>
                /\ i > 1
                /\ trace[i-1] = Ev("fail", trace[i].attempt, PlainOrRawText, 0)
                /\ trace[i].attempt < 3
                /\ trace[i].secs = trace[i].attempt
          /\ (trace[i] = Ev("fail", trace[i].attempt, PlainOrRawText, 0)
                /\ trace[i].attempt < 3) =>
                (i < Len(trace) /\ trace[i+1].ev = "sleep")
    /\ Count("sleep") <= 2
    /\ wpc = "ga_sleep" => Last(trace).ev = "sleep"

C6_Witness == \E i \in DOMAIN trace : trace[i] = Ev("sleep", 2, PlainOrRawText, 2)

\* C7: every path reported by file_finished or finished names a file that
\* exists and is not empty.
C7_ReportedFileNonEmpty ==
    \A i \in DOMAIN signals :
        signals[i].sig \in {"file_finished", "finished"} =>
            /\ signals[i].arg \in DOMAIN fs
            /\ fs[signals[i].arg] # << >>

\* C8: every use of an SSMLCommunicate after the first one ends with the
\* usage error (RuntimeError) and opens no connection.
C8_SingleUse ==
    /\ \A i \in 2..Len(callLog) :
          /\ callLog[i].result = "RuntimeError"
          /\ callLog[i].conns = callLog[1].conns
    /\ (hpc = "waiting" /\ Len(callLog) >= 1) =>
          /\ sess.pc = "done"
          /\ sess.result = "RuntimeError"
          /\ Len(sess.connLog) = callLog[1].conns

\* the first use failed and the instance was used again
C8_Witness ==
    /\ Len(callLog) >= 2
    /\ callLog[1].result = "NoAudioReceived"
    /\ callLog[1].conns = 1

\* C9: a session whose frame loop ended (turn.end or close) without a
\* yielded audio payload ends with NoAudioReceived (not with WebSocketError,
\* not without error), and a session that ends without an error has yielded
\* audio.
C9_NoAudioDetected ==
    /\ (sess.pc = "done" /\ sess.ended # None /\ sess.out = << >>) =>
          sess.result = "NoAudioReceived"
    /\ sess.result = "ok" => sess.out # << >>

\* the connection closed after messages that carried no audio
C9_Witness ==
    /\ sess.pc = "done"
    /\ sess.ended = "closed"
    /\ sess.nframes > 0
    /\ sess.result = "NoAudioReceived"

\* C10: one stream() call refreshes the token at most once, and exactly when
\* its first connection was rejected with 403; it then connects exactly once
\* more; a 403 of that second connection ends the call with the
\* ClientResponseError.
C10_OneRefresh ==
    LET log == sess.connLog IN
    /\ sess.refreshes <= 1
    /\ Len(log) <= 2
    /\ sess.refreshes = IF Len(log) >= 1 /\ log[1] = "http403" THEN 1 ELSE 0
    /\ Len(log) = 2 => log[1] = "http403"
    /\ (sess.pc \in {"recv", "done"} /\ Len(log) >= 1 /\ log[1] = "http403") =>
          Len(log) = 2
    /\ log = <<"http403", "http403">> =>
          sess.pc = "done" /\ sess.result = "ClientResponseError403"

\* a 403, then a connection that delivered audio
C10_Witness ==
    /\ sess.connLog = <<"http403", "ok">>
    /\ sess.result = "ok"
    /\ sess.refreshes = 1

\* C11: a session that failed on a malformed frame (ValueError of
\* get_headers_and_data) ends its _generate_audio call at once: the parse
\* error is raised to the caller and no further tier or attempt is started
\* for that chunk.
C11_MalformedPropagates ==
    [][(wpc = "tier_wait" /\ sess.pc = "done" /\ sess.result = "ValueError")
          => (wpc' = "done" /\ raised'.kind = "ValueError")]_vars

\* binary messages the two length tests of the frame loop reject
LengthRejected ==
    {f \in ServerFrames(Payloads) :
        f.type = "BINARY" /\ (f.size = "short" \/ f.hlen = "over")}

\* C12: a binary message shorter than 2 bytes, or whose declared header
\* length is greater than the message, is dropped: handling it raises
\* nothing, yields and writes no audio, leaves the audio-received flag as it
\* was, and the frame loop goes on to the next message.
C12_BadLengthDropped ==
    [][\A f \in LengthRejected :
          Receive(f) =>
              /\ sess'.pc = "recv"
              /\ sess'.result = sess.result
              /\ sess'.out = sess.out
              /\ sess'.audio_was_received = sess.audio_was_received
              /\ sess'.dropped = sess.dropped + 1
              /\ fs' = fs]_vars

\* two such messages were dropped, then the turn ended without audio
C12_Witness ==
    /\ sess.dropped = 2
    /\ sess.pc = "done"
    /\ sess.ended = "turn.end"
    /\ sess.result = "NoAudioReceived"

\* file p holds audio, and only the audio of chunk k
HoldsChunk(p, k) ==
    /\ p \in DOMAIN fs
    /\ fs[p] # << >>
    /\ \A j \in DOMAIN fs[p] : fs[p][j] = ChunkAudio(k)

\* C13: the chunks of a text of N > 1 chunks are synthesized one after the
\* other in chunk order: while chunk k is being synthesized, the files of
\* exactly the chunks 1..k-1 are complete and listed in that order, and the
\* running session writes to a file that is not one of them; the manifest
\* the concatenation tool is started with lists the N per-chunk files in
\* chunk order, however many sessions each chunk needed; the merged file is
\* the audio in chunk order.
C13_ChunkOrder ==
    /\ (nchunks > 1 /\ wpc \notin {"gsf", "batch_loop", "done"}) =>
          /\ Len(temp_files) = ci - 1
          /\ \A k \in DOMAIN temp_files : HoldsChunk(temp_files[k], k)
          /\ \A k, l \in DOMAIN temp_files : k # l => temp_files[k] # temp_files[l]
          /\ InGenerateAudio =>
                /\ ci \in 1..nchunks
                /\ \A k \in DOMAIN temp_files : temp_files[k] # target
    /\ wpc = "ffmpeg" =>
          /\ fs[ListFile(dest)] = temp_files
          /\ Len(fs[ListFile(dest)]) = nchunks
          /\ \A k \in 1..nchunks : HoldsChunk(fs[ListFile(dest)][k], k)
    /\ \A i \in DOMAIN signals :
          (signals[i].sig = "file_finished" /\ signals[i].arg \in DOMAIN fs) =>
              LET a == fs[signals[i].arg] IN
              \A j \in 1..(Len(a) - 1) : a[j] <= a[j+1]

\* the manifest of a text of two chunks is handed to the tool after the
\* second chunk needed more than one session
C13_Witness ==
    /\ wpc = "ffmpeg"
    /\ nchunks = 2
    /\ HasEvent("fail")
    /\ fs[ListFile(dest)] = temp_files

\* coroutines that were started and are not over
Active == {j \in DOMAIN loopTasks : loopTasks[j].pc = "running"}

\* C14: one synthesis job is in flight at a time: whatever requests are made
\* on a ready worker, at most one coroutine is active on the loop, and the
\* parameters kept on the worker are those of the active batch job, which
\* never works with any others.
C14_OneJobInFlight ==
    /\ Cardinality(Active) <= 1
    /\ \A j \in DOMAIN loopTasks :
          loopTasks[j].kind = "batch" =>
              /\ j \in Active => stored = loopTasks[j].args
              /\ loopTasks[j].read \in {None, loopTasks[j].args}

RECURSIVE Joined(_)
\* the chunks one after the other
Joined(cs) == IF cs = << >> THEN << >> ELSE Head(cs) \o Joined(Tail(cs))

\* the characters of s that are not whitespace, in order
NonWhitespace(s) == SelectSeq(s, LAMBDA c : c \notin Whitespace)

\* C15: every chunk _chunk_text returns (and every chunk it has put on the
\* list so far) has at most max_chars characters.
C15_ChunkLength ==
    \A k \in DOMAIN chunks : Len(chunks[k]) <= max_chars

\* a text was split in at least two chunks, one of them of full length
C15_Witness ==
    /\ cpc = "returned"
    /\ Len(chunks) >= 2
    /\ \E k \in DOMAIN chunks : Len(chunks[k]) = max_chars
    /\ max_chars > 1

\* C16: for a text that is not empty, no chunk _chunk_text returns is the
\* empty string.
C16_NoEmptyChunk ==
    (cpc = "returned" /\ input # << >>) =>
        \A k \in DOMAIN chunks : chunks[k] # << >>

\* C17: the characters of the returned chunks that are not whitespace, taken
\* in chunk order, are the characters of the given text that are not
\* whitespace, in the same order.
C17_Lossless ==
    cpc = "returned" =>
        NonWhitespace(Joined(chunks)) = NonWhitespace(input)

\* a text with whitespace inside was split in at least two chunks, once
\* without any whitespace to split at
C17_Witness ==
    /\ cpc = "returned"
    /\ Len(chunks) >= 3
    /\ \E i \in DOMAIN input : input[i] \in Whitespace
    /\ Len(NonWhitespace(input)) = Len(input) - 1

\* a manifest (list_file) of some destination exists
ManifestExists == \E p \in DOMAIN fs : p[1] \in {"out.txt", "tmp.txt"}

\* C18: when _merge_audio_files is over, the manifest does not exist,
\* whether the tool succeeded, exited non-zero or could not be started: a
\* manifest exists only while the tool runs.
C18_ManifestRemoved == ManifestExists => wpc = "ffmpeg"

\* the tool could not be started and the job is over
C18_Witness ==
    /\ wpc = "done"
    /\ raised.kind = "FileNotFoundError"
    /\ ~ManifestExists

\* C19: while a text of exactly one chunk is processed, the session writes
\* to the destination itself, no file other than the destination is
\* created, the list of per-chunk files stays empty, and neither the
\* manifest is written nor the concatenation tool started.
C19_SingleChunkDirect ==
    [][nchunks = 1 =>
          /\ InGenerateAudio => target = dest
          /\ DOMAIN fs' \subseteq DOMAIN fs \cup {dest}
          /\ temp_files' = << >>
          /\ wpc' \notin {"chunk_loop", "ffmpeg"}
          /\ ~ManifestExists']_vars

\* the audio of a text of one chunk is being written to the destination
C19_Witness ==
    /\ nchunks = 1
    /\ wpc = "tier_wait"
    /\ target = dest
    /\ fs[dest] # << >>

\* C20: a non-zero exit of the concatenation tool ends the job: the
\* RuntimeError built from the tool's stderr is raised, the error signal is
\* the next and last signal (no file_finished for the file, no finished),
\* and afterwards nothing happens any more: no second merge, no further
\* session.
C20_MergeFailureFatal ==
    [][/\ MergeRun("nonzero") =>
             /\ wpc' = "done"
             /\ raised' = [kind |-> "RuntimeError", userFacing |-> TRUE,
                           cause |-> "CalledProcessError"]
             /\ signals' = Append(signals, Sig("error", dest))
             /\ trace' = trace
             /\ \A i \in DOMAIN signals' : signals'[i].sig # "finished"
             /\ Cardinality({i \in DOMAIN signals' :
                               signals'[i].sig = "file_finished"}) = ti - 1
       /\ raised.cause # "CalledProcessError"]_vars

\* the merge of a text of two chunks failed with a non-zero exit
C20_Witness ==
    /\ wpc = "done"
    /\ raised.cause = "CalledProcessError"
    /\ nchunks = 2
    /\ Last(signals).sig = "error"
    /\ dest \notin DOMAIN fs


\* the header map and the body the encoder was given
OriginalHeaders(m) ==
    IF m.kind = "config"
    THEN (<<"X-Timestamp">> :> m.timestamp)
         @@ (<<"Content-Type">> :> <<"application/json; charset=utf-8">>)
         @@ (<<"Path">> :> <<"speech.config">>)
    ELSE (<<"X-RequestId">> :> m.request_id)
         @@ (<<"Content-Type">> :> <<"application/ssml+xml">>)
         @@ (<<"X-Timestamp">> :> m.timestamp \o <<"Z">>)
         @@ (<<"Path">> :> <<"ssml">>)

OriginalBody(m) ==
    IF m.kind = "config"
    THEN ConfigJson(m.output_format) \o CRLF
    ELSE m.ssml

\* C21: a config or payload message that was encoded and then decoded with
\* get_headers_and_data, the header length being the index of the first
\* blank-line boundary, comes back with exactly the original header map and
\* exactly the original body, no byte more and no byte less.
C21_RoundTrip ==
    kpc = "done" =>
        /\ decoded.raised = None
        /\ decoded.headers = OriginalHeaders(msg)
        /\ decoded.data = OriginalBody(msg)

\* the bytes a message adds to the audio of its session: the payload of a
\* binary message that passes the length tests, has Path audio and has a
\* payload, nothing for every other message
Contribution(f) ==
    IF /\ f.type = "BINARY" /\ f.size = "ok" /\ f.hlen = "ok" /\ f.hdr = "ok"
       /\ f.path = "audio" /\ f.data # 0
    THEN <<f.data>> ELSE << >>

\* C22: the audio a session yields is the sequence, in arrival order, of the
\* non-empty payloads of the binary messages with Path audio that arrive
\* before the first turn.end text message: every message that is handled
\* appends its payload if it is such a message and leaves the audio alone
\* otherwise (whatever its Path), turn.end ends the session, and no message
\* is handled once turn.end was seen.
C22_AudioInArrivalOrder ==
    [][\A f \in ServerFrames(Payloads) :
          Receive(f) =>
              /\ sess.ended # "turn.end"
              /\ sess'.out = sess.out \o Contribution(f)
              /\ fs' = IF Contribution(f) = << >> THEN fs
                       ELSE WriteAudio(fs, sess.fname, f.data)
              /\ f = TextFrame("turn.end", "ok") =>
                    sess'.pc = "done" /\ sess'.ended = "turn.end"]_vars

C22_Witness ==
    /\ hpc = "waiting"
    /\ sess.ended = "turn.end"
    /\ sess.out = <<2, 1>>
    /\ HarnessFile \in DOMAIN fs
    /\ fs[HarnessFile] = <<2, 1>>

\* C23: an ERROR message of the connection makes the session fail with
\* WebSocketError, also when audio was already yielded: the session is over
\* with that error, never with success, and _attempt_generate_audio takes
\* the block as failed: it records the failure and goes on to the next
\* block instead of returning.
C23_ErrorFrameFails ==
    [][/\ Receive(ErrorFrame) =>
             /\ sess'.pc = "done"
             /\ sess'.result = "WebSocketError"
             /\ ~SessionSucceeded(sess'.result)
             /\ sess'.out = sess.out
       /\ (TierResult /\ sess.result = "WebSocketError") =>
             /\ trace' = Append(trace, Ev("fail", attempt, tier, 0))
             /\ tier' = NextTier(tier)
             /\ wpc' = "tier_start"
             /\ signals' = signals]_vars

C23_Witness ==
    /\ wpc = "tier_wait"
    /\ sess.pc = "done"
    /\ sess.result = "WebSocketError"
    /\ sess.out # << >>

\* the mstts:silence element stands inside the voice element of a request
HasSilence(body) ==
    \E i, j, k \in DOMAIN body :
        /\ i < j /\ j < k
        /\ body[i] = VoiceOpen /\ body[j] = SilenceOpen /\ body[k] = VoiceClose

\* C24 (as stated): for every pause_ms >= 0 the request of SilenceTagged has
\* the mstts:silence element inside its voice element, the request of
\* BreakTagged for the same text, rate and voice has not, and the two are
\* never identical.
C24_TiersDistinct ==
    Len(built) >= BreakTagged =>
        /\ HasSilence(built[SilenceTagged].body)
        /\ ~HasSilence(built[BreakTagged].body)
        /\ built[SilenceTagged].body # built[BreakTagged].body

\* C24 (amended): for every pause_ms > 0 the request of SilenceTagged has
\* the mstts:silence element inside its voice element, the request of
\* BreakTagged has not, and the two differ; for pause_ms = 0 neither has the
\* element and the two requests are identical.
C24_TiersDistinctIfPause ==
    Len(built) >= BreakTagged =>
        /\ ~HasSilence(built[BreakTagged].body)
        /\ IF req.pause_ms > 0
           THEN /\ HasSilence(built[SilenceTagged].body)
                /\ built[SilenceTagged].body # built[BreakTagged].body
           ELSE /\ ~HasSilence(built[SilenceTagged].body)
                /\ built[SilenceTagged].body = built[BreakTagged].body

C24_Witness ==
    /\ Len(built) >= BreakTagged
    /\ req.pause_ms > 0
    /\ HasSilence(built[SilenceTagged].body)
    /\ \E i \in DOMAIN built[BreakTagged].body :
          built[BreakTagged].body[i] = "<break time=\""

\* the value of the xml:lang attribute of the speak element of a request
LangAttr(body) ==
    LET ends == {k \in DOMAIN body : body[k] \in {TagEnd, RawTagEnd}}
        close == CHOOSE k \in ends : \A j \in ends : k <= j IN
    SubSeq(body, 2, close - 1)

\* the first two dash-separated parts of a voice identifier
FirstTwoParts(voice_id) ==
    LET parts == Split(voice_id, <<"-">>) IN parts[1] \o <<"-">> \o parts[2]

\* C25: in every block that builds a speak wrapper (SilenceTagged,
\* BreakTagged, and PlainOrRawText when the text is raw markup) the xml:lang
\* attribute of the request is the first two dash-separated parts of the
\* voice identifier.
C25_LangFromVoice ==
    \A i \in DOMAIN built :
        built[i].kind = "ssml" =>
            /\ built[i].body[1] \in {SpeakOpen, RawSpeakOpen}
            /\ LangAttr(built[i].body) = FirstTwoParts(req.voice_id)

\* C26: _chunk_text terminates for every text and every max_chars >= 1:
\* every iteration of the while loop leaves a strictly shorter text, also
\* the one whose split index is 0 (the window starts with whitespace), and
\* the call returns.
C26_Terminates ==
    /\ [][ChunkSplit => Len(text') < Len(text)]_vars
    /\ <>(cpc = "returned")

C26_Witness ==
    /\ cpc = "returned"
    /\ Len(chunks) >= 2
    /\ chunks[1] = << >>
    /\ max_chars = 1

\* the files made by _temp_file_name for the chunks of the current task:
\* every temp file but the destination of a preview
ChunkTempFiles ==
    {p \in DOMAIN fs : p[1] = "tmp" /\ p # dest}

\* C27: once _generate_single_file is over for a text of several chunks
\* (all chunks merged, a chunk failed, or the merge failed) none of the
\* temp files of its chunks exists any more, the one of the failing chunk
\* included.
C27_TempFilesRemoved ==
    (wpc \in {"batch_loop", "done"} /\ ti >= 1) => ChunkTempFiles = {}

\* C28: a batch that has run to its end has emitted exactly one terminal
\* signal, finished or error and never both, as its last signal; finished
\* comes only after file_finished was emitted for every task in task order;
\* after the first failing task error is emitted once, no later task is
\* started (no further batch_progress) and no further file_finished follows.
C28_OneTerminalSignal ==
    /\ wpc = "done" =>
          /\ signals # << >>
          /\ signals[Len(signals)].sig \in {"finished", "error"}
    /\ \A i \in DOMAIN signals :
          LET s == signals[i] IN
          /\ s.sig \in {"finished", "error"} =>
                i = Len(signals) /\ wpc = "done"
          /\ s.sig = "batch_progress" => i % 2 = 1
          /\ s.sig = "file_finished" =>
                /\ i % 2 = 0
                /\ signals[i - 1] = Sig("batch_progress", s.arg)
          /\ s.sig = "finished" =>
                /\ i = 2 * Len(tasks) + 1
                /\ \A k \in 1..Len(tasks) :
                      /\ signals[2 * k].sig = "file_finished"
                      /\ tasks[k].given => signals[2 * k].arg = OutPath(k)
          /\ s.sig = "error" =>
                /\ i = 2 * ti
                /\ signals[i - 1].sig = "batch_progress"
                /\ \A k \in 1..(ti - 1) :
                      signals[2 * k] = Sig("file_finished", OutPath(k))

C28_Witness ==
    /\ wpc = "done"
    /\ Len(tasks) = 2
    /\ ti = 1
    /\ signals[Len(signals)].sig = "error"

\* request j got its finished or its error signal
Answered(j) ==
    \E i \in DOMAIN signals :
        signals[i] \in {Sig("finished", j), Sig("error", j)}

\* C29: no request is lost without a signal: a process_request call emits
\* error at once (worker not ready) or leads to the finished or the error
\* signal of its request, also when it is made after stop() has stopped the
\* loop.  Stated for the requests nothing can happen to any more: one whose
\* coroutine was dropped or cancelled, and every request once the loop has
\* stopped for good, has got its signal.
C29_NoLostRequest ==
    \A j \in DOMAIN loopTasks :
        (loopTasks[j].pc \in {"raised", "cancelled"} \/ loop # "running")
            => Answered(j)

\* C30: when _generate_audio returns successfully, the destination holds
\* exactly the audio payloads of the one successful session, in order, and
\* nothing that an earlier failed block or attempt wrote to it: every
\* session starts by truncating the destination.
C30_OnlySuccessfulSession ==
    [][/\ TierStart => fs'[target] = << >>
       /\ (TierResult /\ SessionSucceeded(sess.result)) =>
             /\ sess.out # << >>
             /\ fs[target] = sess.out
             /\ fs'[target] = sess.out
       /\ (\E o \in LibOutcomes : LibFinish(o) /\ SessionSucceeded(o)) =>
             /\ fs[target] # << >>
             /\ fs'[target] = fs[target]
             /\ \A i \in DOMAIN fs[target] : fs[target][i] \in WorkerPayloads
      ]_vars

C30_Witness ==
    /\ wpc = "tier_wait"
    /\ sess.pc = "done"
    /\ sess.result = "ok"
    /\ Count("fail") >= 1
    /\ \E i \in DOMAIN trace : trace[i].ev = "fail" /\ trace[i].tier = SilenceTagged
    /\ fs[target] = sess.out

====
